---------------------------- MODULE Spec2Model ----------------------------
(***************************************************************************)
(* A model of the lexi crate: the VecLexicon filters (veclexicon.rs,       *)
(* lexicon.rs) and the WordList builder (wordlist.rs).                     *)
(*                                                                         *)
(* A Rust String is modelled as a sequence of chars, a char as a one-      *)
(* character TLA+ string.  A Vec<String> is a sequence of such sequences.  *)
(***************************************************************************)
EXTENDS Integers, Sequences, FiniteSets, TLC

VARIABLES
    input,        \* the Vec<String> handed to VecLexicon::new
    built,        \* TRUE once the VecLexicon exists
    words,        \* VecLexicon.words
    prev,         \* history: VecLexicon.words before the last filter call
    lastOp,       \* history: the last filter call and its arguments
    main_list,    \* the main word list source given to parse_*
    swears_list,  \* the swears source given to parse_*
    result,       \* what parse_* returned: Ok(WordList), Err, or a panic
    stage,        \* "unparsed", "parsed", "consumed"
    list,         \* the Vec<String> produced from the WordList
    lastFlags     \* history: the flags of the last custom_list call

vars == <<input, built, words, prev, lastOp,
          main_list, swears_list, result, stage, list, lastFlags>>

lexVars == <<input, built, words, prev, lastOp>>
wlVars  == <<main_list, swears_list, result, stage, list, lastFlags>>

--------------------------------------------------------------------------
(* Bounds of the model. *)

MaxWords == 2
MaxLetters == 2
MaxLength == 3
MaxLines == 2
MaxSwears == 2
MaxFlags == 2

SeqsUpTo(S, n) == UNION {[1..k -> S] : k \in 0..n}

Range(s) == {s[i] : i \in DOMAIN s}

--------------------------------------------------------------------------
(* Strings. *)

\* chars whose UTF-8 encoding takes two bytes; every other char of the
\* model is ASCII
TwoByteChars == {"é"}

len_utf8(c) == IF c \in TwoByteChars THEN 2 ELSE 1

RECURSIVE len_chars_sum(_)
len_chars_sum(word) ==
    IF word = <<>> THEN 0 ELSE len_utf8(Head(word)) + len_chars_sum(Tail(word))

\* a mutation of len: the number of chars instead of the number of bytes
len_as_char_count(word) == Len(word)

\* String::len: the length in bytes
len(word) == len_chars_sum(word)

\* str::contains(char)
str_contains(word, c) == \E i \in DOMAIN word : word[i] = c

\* str::ends_with(char)
ends_with(line, c) == Len(line) > 0 /\ line[Len(line)] = c

\* String::truncate(new_len), new_len in bytes on a char boundary
truncate(line, new_len) ==
    IF new_len >= len(line) THEN line
    ELSE SubSeq(line, 1,
                CHOOSE k \in 0..Len(line) : len(SubSeq(line, 1, k)) = new_len)

--------------------------------------------------------------------------
(* VecLexicon and the Lexicon trait.  Vec::retain(f) is SelectSeq: it      *)
(* keeps, in order, the elements f accepts.                                *)

\* VecLexicon::new stores the vector as given
new(ws) == ws

\* a mutation of with_letter: removal by index while scanning forward, which
\* skips the element after every removed one
RECURSIVE scan_skipping(_, _, _)
scan_skipping(ws, i, letter) ==
    IF i > Len(ws) THEN ws
    ELSE IF str_contains(ws[i], letter) THEN scan_skipping(ws, i + 1, letter)
    ELSE scan_skipping(SubSeq(ws, 1, i - 1) \o SubSeq(ws, i + 1, Len(ws)),
                       i + 1, letter)

with_letter_skipping(ws, letter) == scan_skipping(ws, 1, letter)

with_letter(ws, letter) == SelectSeq(ws, LAMBDA word : str_contains(word, letter))

\* a mutation of without_letter: the letter is removed from every word
\* instead of the words with the letter being removed from the list
without_letter_stripping(ws, letter) ==
    [i \in DOMAIN ws |-> SelectSeq(ws[i], LAMBDA c : c # letter)]

without_letter(ws, letter) ==
    SelectSeq(ws, LAMBDA word : ~str_contains(word, letter))

\* a mutation of only_using_letters: any() in place of all()
only_using_letters_any(ws, letters) ==
    SelectSeq(ws, LAMBDA word : \E i \in DOMAIN word : str_contains(letters, word[i]))

only_using_letters(ws, letters) ==
    LET string == letters
    IN  SelectSeq(ws, LAMBDA word : \A i \in DOMAIN word : str_contains(string, word[i]))

\* a mutation of with_letters: one retain pass keeping the words with any of
\* the letters
with_letters_any(ws, letters) ==
    SelectSeq(ws, LAMBDA word : \E i \in DOMAIN letters : str_contains(word, letters[i]))

RECURSIVE with_letters(_, _)
with_letters(ws, letters) ==
    IF letters = <<>> THEN ws
    ELSE with_letters(with_letter(ws, Head(letters)), Tail(letters))

RECURSIVE without_letters(_, _)
without_letters(ws, letters) ==
    IF letters = <<>> THEN ws
    ELSE without_letters(without_letter(ws, Head(letters)), Tail(letters))

with_exact_length(ws, length) == SelectSeq(ws, LAMBDA word : len(word) = length)

with_more_length(ws, length) == SelectSeq(ws, LAMBDA word : len(word) > length)

with_less_length(ws, length) == SelectSeq(ws, LAMBDA word : len(word) < length)

--------------------------------------------------------------------------
(* WordList: flags, buckets and the two parsers. *)

NEOLOGISM_ANNOT == "!"
UNCOUNTABLE_PLURAL_ANNOT == "%"

Flag == {"UncountablePlurals", "Swears", "Neologisms"}

\* Vec::contains
vec_contains(v, x) == \E i \in DOMAIN v : v[i] = x

WordList(normal_words, uncountable_plurals, swears, neologisms) ==
    [normal_words |-> normal_words, uncountable_plurals |-> uncountable_plurals,
     swears |-> swears, neologisms |-> neologisms]

Ok(v) == [tag |-> "Ok", value |-> v]
Err == [tag |-> "Err"]
Panic == [tag |-> "Panic"]

\* a mutation of custom_list: one extend per flag of the collection, in the
\* collection's order
RECURSIVE extend_per_flag(_, _, _)
extend_per_flag(self, flags, acc) ==
    IF flags = <<>> THEN acc
    ELSE extend_per_flag(self, Tail(flags),
            acc \o (CASE Head(flags) = "UncountablePlurals" -> self.uncountable_plurals
                      [] Head(flags) = "Swears" -> self.swears
                      [] Head(flags) = "Neologisms" -> self.neologisms))

custom_list_per_flag(self, flags) == extend_per_flag(self, flags, self.normal_words)

custom_list(self, flags) ==
    LET list0 == self.normal_words
        flags_iter == flags
        list1 == IF vec_contains(flags_iter, "UncountablePlurals")
                 THEN list0 \o self.uncountable_plurals ELSE list0
        list2 == IF vec_contains(flags_iter, "Swears")
                 THEN list1 \o self.swears ELSE list1
        list3 == IF vec_contains(flags_iter, "Neologisms")
                 THEN list2 \o self.neologisms ELSE list2
    IN  list3

default_list(self) == custom_list(self, <<"Neologisms">>)

\* From<WordList> for Vec<String>
vec_from_wordlist(wl) == default_list(wl)

\* From<WordList> for VecLexicon
lexicon_from_wordlist(wl) == new(default_list(wl))

\* the (line_str, word_type) of a line: at most one trailing marker removed
strip_annotation(line) ==
    IF ends_with(line, NEOLOGISM_ANNOT)
    THEN [line_str |-> truncate(line, len(line) - len_utf8(NEOLOGISM_ANNOT)),
          word_type |-> "Neologisms"]
    ELSE IF ends_with(line, UNCOUNTABLE_PLURAL_ANNOT)
    THEN [line_str |-> truncate(line, len(line) - len_utf8(UNCOUNTABLE_PLURAL_ANNOT)),
          word_type |-> "UncountablePlurals"]
    ELSE [line_str |-> line, word_type |-> "None"]

\* the buckets after a line that is not a swear is pushed
push_line(acc, a) ==
    CASE a.word_type = "UncountablePlurals" ->
            [acc EXCEPT !.uncountable_plurals = Append(@, a.line_str)]
      [] a.word_type = "Neologisms" ->
            [acc EXCEPT !.neologisms = Append(@, a.line_str)]
      [] OTHER ->
            [acc EXCEPT !.normal_words = Append(@, a.line_str)]

\* a mutation of classify_line: the swears are looked up by the line as read,
\* marker included
classify_line_unstripped(acc, line) ==
    LET a == strip_annotation(line)
    IN  IF ~vec_contains(acc.swears, line) THEN push_line(acc, a) ELSE acc

\* one turn of the loop over the main list's lines
classify_line(acc, line) ==
    LET a == strip_annotation(line)
    IN  IF ~vec_contains(acc.swears, a.line_str) THEN push_line(acc, a) ELSE acc

\* the loop over the main list's lines and the WordList built after it; a
\* line that cannot be read returns the error
RECURSIVE main_lines_loop(_, _)
main_lines_loop(main_lines, acc) ==
    IF main_lines = <<>> THEN Ok(acc)
    ELSE IF ~Head(main_lines).ok THEN Err
    ELSE main_lines_loop(Tail(main_lines), classify_line(acc, Head(main_lines).line))

\* a file is [open, lines]: open is FALSE when File::open fails; each line is
\* [ok, line], ok FALSE when BufRead::lines yields an error for it
parse_list(main_file, swears_file) ==
    IF ~main_file.open THEN Err
    ELSE IF ~swears_file.open THEN Err
    ELSE IF \E i \in DOMAIN swears_file.lines : ~swears_file.lines[i].ok THEN Panic
    ELSE main_lines_loop(main_file.lines,
            WordList(<<>>, <<>>,
                     [i \in DOMAIN swears_file.lines |-> swears_file.lines[i].line],
                     <<>>))

\* the lines of a &str are always read and decoded
str_lines(text) == [i \in DOMAIN text |-> [ok |-> TRUE, line |-> text[i]]]

\* main_list and swears_list are the sequences of the lines of the two strings
parse_strings(main_text, swears_text) ==
    main_lines_loop(str_lines(main_text), WordList(<<>>, <<>>, swears_text, <<>>))

--------------------------------------------------------------------------
(* Inputs of the lexicon. *)

apple  == <<"a", "p", "p", "l", "e">>
pea    == <<"p", "e", "a">>
apples == <<"a", "p", "p", "l", "e", "s">>

WordUniverse ==
    { <<>>, <<"a">>, <<"b", "b">>, <<"a", "b">>, <<"A", "b">>, <<"é">> }

SpellingLexicon == <<apple, pea, apples>>
LengthLexicon == << <<"a">>, <<"b", "b">>, <<"c", "c", "c">> >>

Lexicons == SeqsUpTo(WordUniverse, MaxWords) \cup {SpellingLexicon, LengthLexicon}

Letters == {"a", "b"}

SpellingLetters == <<"a", "p", "l", "e">>

LetterCollections == SeqsUpTo(Letters, MaxLetters) \cup {SpellingLetters}

Lengths == 0..MaxLength

NoOp == [name |-> "none", letters |-> <<>>, length |-> 0]

Op(name, letters, length) == [name |-> name, letters |-> letters, length |-> length]

--------------------------------------------------------------------------
(* Actions of the lexicon. *)

Filter(op, after) ==
    /\ built
    /\ prev' = words
    /\ words' = after
    /\ lastOp' = op
    /\ UNCHANGED <<input, built>>
    /\ UNCHANGED wlVars

Call_new ==
    /\ ~built
    /\ stage = "unparsed"
    /\ built' = TRUE
    /\ words' = new(input)
    /\ prev' = input
    /\ UNCHANGED <<input, lastOp>>
    /\ UNCHANGED wlVars

Call_with_letter ==
    \E l \in Letters :
        /\ built
        /\ Filter(Op("with_letter", <<l>>, 0), with_letter(words, l))

Call_without_letter ==
    \E l \in Letters :
        /\ built
        /\ Filter(Op("without_letter", <<l>>, 0), without_letter(words, l))

Call_only_using_letters ==
    \E ls \in LetterCollections :
        /\ built
        /\ Filter(Op("only_using_letters", ls, 0), only_using_letters(words, ls))

Call_with_letters ==
    \E ls \in LetterCollections :
        /\ built
        /\ Filter(Op("with_letters", ls, 0), with_letters(words, ls))

Call_without_letters ==
    \E ls \in LetterCollections :
        /\ built
        /\ Filter(Op("without_letters", ls, 0), without_letters(words, ls))

Call_with_exact_length ==
    \E n \in Lengths :
        /\ built
        /\ Filter(Op("with_exact_length", <<>>, n), with_exact_length(words, n))

Call_with_more_length ==
    \E n \in Lengths :
        /\ built
        /\ Filter(Op("with_more_length", <<>>, n), with_more_length(words, n))

Call_with_less_length ==
    \E n \in Lengths :
        /\ built
        /\ Filter(Op("with_less_length", <<>>, n), with_less_length(words, n))

WlIdle ==
    /\ main_list = [open |-> FALSE, lines |-> <<>>]
    /\ swears_list = [open |-> FALSE, lines |-> <<>>]
    /\ result = [tag |-> "none"]
    /\ stage = "unparsed"
    /\ list = <<>>
    /\ lastFlags = <<>>

InitLexicon ==
    /\ input \in Lexicons
    /\ built = FALSE
    /\ words = <<>>
    /\ prev = <<>>
    /\ lastOp = NoOp
    /\ WlIdle

NextLexicon ==
    \/ Call_new
    \/ Call_with_letter
    \/ Call_without_letter
    \/ Call_only_using_letters
    \/ Call_with_letters
    \/ Call_without_letters
    \/ Call_with_exact_length
    \/ Call_with_more_length
    \/ Call_with_less_length

SpecLexicon == InitLexicon /\ [][NextLexicon]_vars

--------------------------------------------------------------------------
(* Inputs of the WordList builder. *)

acnes   == <<"a", "c", "n", "e", "s">>
blogger == <<"b", "l", "o", "g", "g", "e", "r">>
fuck    == <<"f", "u", "c", "k">>

MainLines ==
    { apple, acnes \o <<"%">>, blogger \o <<"!">>, fuck, fuck \o <<"!">>,
      <<"a", "!", "%">> }

SwearLines == { fuck, <<"a", "!">> }

Unreadable == [ok |-> FALSE, line |-> <<>>]

Readable(S) == {[ok |-> TRUE, line |-> l] : l \in S}

NotFound == [open |-> FALSE, lines |-> <<>>]

Files(S, n) == {[open |-> TRUE, lines |-> ls] :
                    ls \in SeqsUpTo(Readable(S) \cup {Unreadable}, n)} \cup {NotFound}

\* a source that a &str can hold: it is open and every line of it is read
IsText(file) == file.open /\ \A i \in DOMAIN file.lines : file.lines[i].ok

TextOf(file) == [i \in DOMAIN file.lines |-> file.lines[i].line]

FlagCollections == SeqsUpTo(Flag, MaxFlags)

--------------------------------------------------------------------------
(* Actions of the WordList builder. *)

Parsed(r) ==
    /\ stage = "unparsed"
    /\ result' = r
    /\ stage' = IF r.tag = "Ok" THEN "parsed" ELSE "failed"
    /\ UNCHANGED <<main_list, swears_list, list, lastFlags>>
    /\ UNCHANGED lexVars

Call_parse_list ==
    /\ stage = "unparsed"
    /\ Parsed(parse_list(main_list, swears_list))

Call_parse_strings ==
    /\ IsText(main_list)
    /\ IsText(swears_list)
    /\ Parsed(parse_strings(TextOf(main_list), TextOf(swears_list)))

Call_custom_list ==
    \E flags \in FlagCollections :
        /\ stage = "parsed"
        /\ list' = custom_list(result.value, flags)
        /\ lastFlags' = flags
        /\ stage' = "custom_list"
        /\ UNCHANGED <<main_list, swears_list, result>>
        /\ UNCHANGED lexVars

Call_default_list ==
    /\ stage = "parsed"
    /\ list' = default_list(result.value)
    /\ stage' = "default_list"
    /\ UNCHANGED <<main_list, swears_list, result, lastFlags>>
    /\ UNCHANGED lexVars

Call_vec_from_wordlist ==
    /\ stage = "parsed"
    /\ list' = vec_from_wordlist(result.value)
    /\ stage' = "vec_from"
    /\ UNCHANGED <<main_list, swears_list, result, lastFlags>>
    /\ UNCHANGED lexVars

Call_lexicon_from_wordlist ==
    /\ stage = "parsed"
    /\ ~built
    /\ input' = default_list(result.value)
    /\ words' = lexicon_from_wordlist(result.value)
    /\ prev' = words'
    /\ built' = TRUE
    /\ stage' = "lexicon_from"
    /\ UNCHANGED <<main_list, swears_list, result, list, lastFlags, lastOp>>

InitWordList ==
    /\ main_list \in Files(MainLines, MaxLines)
    /\ swears_list \in Files(SwearLines, MaxSwears)
    /\ result = [tag |-> "none"]
    /\ stage = "unparsed"
    /\ list = <<>>
    /\ lastFlags = <<>>
    /\ input = <<>>
    /\ built = FALSE
    /\ words = <<>>
    /\ prev = <<>>
    /\ lastOp = NoOp

NextWordList ==
    \/ Call_parse_list
    \/ Call_parse_strings
    \/ Call_custom_list
    \/ Call_default_list
    \/ Call_vec_from_wordlist
    \/ Call_lexicon_from_wordlist

SpecWordList == InitWordList /\ [][NextWordList]_vars

--------------------------------------------------------------------------
(* Properties of the lexicon. *)

\* a is a subsequence of b: b with some elements dropped, order kept
RECURSIVE IsSubseq(_, _)
IsSubseq(a, b) ==
    IF a = <<>> THEN TRUE
    ELSE IF b = <<>> THEN FALSE
    ELSE IF Head(a) = Head(b) THEN IsSubseq(Tail(a), Tail(b))
    ELSE IsSubseq(a, Tail(b))

\* after holds exactly the elements of before that are in the set good, in
\* order
ExactlyThose(before, after, good) ==
    /\ IsSubseq(after, before)
    /\ \A i \in DOMAIN after : after[i] \in good
    /\ Len(after) = Cardinality({i \in DOMAIN before : before[i] \in good})

\* the words of the lexicon before the last call that satisfy a condition
Before == Range(prev)

\* the number of bytes of the UTF-8 encoding of a word
RECURSIVE Utf8Bytes(_)
Utf8Bytes(w) ==
    IF w = <<>> THEN 0
    ELSE (IF Head(w) = "é" THEN 2 ELSE 1) + Utf8Bytes(Tail(w))

Reverse(s) == [i \in DOMAIN s |-> s[Len(s) + 1 - i]]

\* the filter call op applied to ws
Apply(op, ws) ==
    CASE op.name = "with_letter" -> with_letter(ws, op.letters[1])
      [] op.name = "without_letter" -> without_letter(ws, op.letters[1])
      [] op.name = "only_using_letters" -> only_using_letters(ws, op.letters)
      [] op.name = "with_letters" -> with_letters(ws, op.letters)
      [] op.name = "without_letters" -> without_letters(ws, op.letters)
      [] op.name = "with_exact_length" -> with_exact_length(ws, op.length)
      [] op.name = "with_more_length" -> with_more_length(ws, op.length)
      [] op.name = "with_less_length" -> with_less_length(ws, op.length)
      [] OTHER -> ws

Filtered == built /\ lastOp.name # "none"

\* C1: after every filter call the stored collection is a subsequence of the
\* collection before the call (no word added, no multiplicity grown, order
\* kept), and so of the collection given at construction.
C1_Monotonic ==
    Filtered => /\ IsSubseq(words, prev)
                /\ IsSubseq(words, input)
                /\ Len(words) <= Len(prev)

\* a filter call removed one word of two and kept the other
C1_Witness ==
    /\ Filtered
    /\ lastOp.name = "without_letter"
    /\ Len(prev) = 2
    /\ Len(words) = 1

\* char::to_lowercase on the chars of the model
Lower(c) == IF c = "A" THEN "a" ELSE c

IsLowercase(w) == w = [i \in DOMAIN w |-> Lower(w[i])]

\* C5: every word stored in a VecLexicon is lowercase in every reachable
\* state, from construction on.
C5_StoredLowercase ==
    built => \A i \in DOMAIN words : IsLowercase(words[i])

HasAll(w, letters) == \A l \in Range(letters) : l \in Range(w)
HasNone(w, letters) == \A l \in Range(letters) : l \notin Range(w)

\* C7: with_letters leaves exactly the words (in order) that contain every
\* given letter, without_letters exactly those that contain none; the result
\* does not depend on the order of the letters, two with_letter calls
\* commute, and an empty collection changes nothing.
C7_LetterCollections ==
    /\ (Filtered /\ lastOp.name = "with_letters") =>
          /\ ExactlyThose(prev, words, {w \in Before : HasAll(w, lastOp.letters)})
          /\ words = with_letters(prev, Reverse(lastOp.letters))
          /\ lastOp.letters = <<>> => words = prev
    /\ (Filtered /\ lastOp.name = "without_letters") =>
          /\ ExactlyThose(prev, words, {w \in Before : HasNone(w, lastOp.letters)})
          /\ words = without_letters(prev, Reverse(lastOp.letters))
          /\ lastOp.letters = <<>> => words = prev
    /\ built => \A a, b \in Letters :
          with_letter(with_letter(words, a), b) = with_letter(with_letter(words, b), a)

\* with_letters(a, b) kept the one word with both letters and dropped one
\* with only one of them
C7_Witness ==
    /\ Filtered
    /\ lastOp.name = "with_letters"
    /\ lastOp.letters = <<"b", "a">>
    /\ prev = << <<"a">>, <<"a", "b">> >>
    /\ words = << <<"a", "b">> >>

OnlyUses(w, letters) == \A i \in DOMAIN w : w[i] \in Range(letters)

\* C8: only_using_letters leaves exactly the words every character of which
\* occurs in the collection (the empty word always survives); on
\* {a,p,l,e} it keeps "apple" and "pea" but not "apples", where with_letters
\* keeps "apple" and "apples" but not "pea".
C8_OnlyUsingLetters ==
    /\ (Filtered /\ lastOp.name = "only_using_letters") =>
          /\ ExactlyThose(prev, words, {w \in Before : OnlyUses(w, lastOp.letters)})
          /\ \A i \in DOMAIN prev : prev[i] = <<>> => <<>> \in Range(words)
          /\ lastOp.letters = <<>> => \A i \in DOMAIN words : words[i] = <<>>
          /\ (prev = SpellingLexicon /\ lastOp.letters = SpellingLetters) =>
                words = <<apple, pea>>
    /\ (Filtered /\ lastOp.name = "with_letters"
          /\ prev = SpellingLexicon /\ lastOp.letters = SpellingLetters) =>
                words = <<apple, apples>>

\* only_using_letters({a,p,l,e}) ran on the lexicon apple, pea, apples
C8_Witness ==
    /\ Filtered
    /\ lastOp.name = "only_using_letters"
    /\ lastOp.letters = SpellingLetters
    /\ prev = SpellingLexicon
    /\ words = <<apple, pea>>

\* C9: applying a filter call a second time with the same arguments leaves
\* the collection the first call left.
C9_Idempotent ==
    Filtered => Apply(lastOp, words) = words

\* a filter call that removed a word and kept one
C9_Witness ==
    /\ Filtered
    /\ lastOp.name = "with_letter"
    /\ Len(prev) = 2
    /\ Len(words) = 1

\* C10: the length filters leave exactly the words whose length in UTF-8
\* bytes (not in characters) is == n, > n, < n; with_less_length(0) empties
\* the lexicon.
C10_LengthFilters ==
    /\ (Filtered /\ lastOp.name = "with_exact_length") =>
          ExactlyThose(prev, words, {w \in Before : Utf8Bytes(w) = lastOp.length})
    /\ (Filtered /\ lastOp.name = "with_more_length") =>
          ExactlyThose(prev, words, {w \in Before : Utf8Bytes(w) > lastOp.length})
    /\ (Filtered /\ lastOp.name = "with_less_length") =>
          /\ ExactlyThose(prev, words, {w \in Before : Utf8Bytes(w) < lastOp.length})
          /\ lastOp.length = 0 => words = <<>>
    /\ (Filtered /\ prev = LengthLexicon) =>
          /\ (lastOp.name = "with_exact_length" /\ lastOp.length = 2) =>
                words = << <<"b", "b">> >>
          /\ (lastOp.name = "with_more_length" /\ lastOp.length = 1) =>
                words = << <<"b", "b">>, <<"c", "c", "c">> >>
          /\ (lastOp.name = "with_less_length" /\ lastOp.length = 3) =>
                words = << <<"a">>, <<"b", "b">> >>

\* with_exact_length(2) kept the one-character, two-byte word and the
\* two-character word, and dropped nothing else of that length
C10_Witness ==
    /\ Filtered
    /\ lastOp.name = "with_exact_length"
    /\ lastOp.length = 2
    /\ prev = << <<"é">>, <<"a">> >>
    /\ words = << <<"é">> >>

--------------------------------------------------------------------------
(* Properties of the WordList builder. *)

\* a line without its trailing marker: '!' looked for first, else '%'
Stripped(line) ==
    IF line # <<>> /\ line[Len(line)] = "!" THEN SubSeq(line, 1, Len(line) - 1)
    ELSE IF line # <<>> /\ line[Len(line)] = "%" THEN SubSeq(line, 1, Len(line) - 1)
    ELSE line

Marker(line) ==
    IF line # <<>> /\ line[Len(line)] \in {"!", "%"} THEN line[Len(line)] ELSE ""

Count(v, x) == Cardinality({i \in DOMAIN v : v[i] = x})

MainText == TextOf(main_list)
Denylist == Range(TextOf(swears_list))
StrippedMain == [i \in DOMAIN MainText |-> Stripped(MainText[i])]

ParsedOk == stage # "unparsed" /\ result.tag = "Ok"

\* C2: the four buckets of the parsed WordList hold, as a multiset, exactly
\* the annotation-stripped lines of the main source, and the swear bucket
\* holds exactly the main-source lines whose stripped form is in the
\* denylist.
C2_BucketsPartitionMain ==
    ParsedOk =>
        LET wl == result.value
            all == wl.normal_words \o wl.uncountable_plurals
                       \o wl.neologisms \o wl.swears
        IN  /\ \A w \in Range(all) \cup Range(StrippedMain) :
                   Count(all, w) = Count(StrippedMain, w)
            /\ \A w \in Range(wl.swears) : w \in Range(StrippedMain) /\ w \in Denylist
            /\ \A w \in Range(StrippedMain) : w \in Denylist => w \in Range(wl.swears)

Unmarked(wl) ==
    Range(wl.normal_words) \cup Range(wl.uncountable_plurals) \cup Range(wl.neologisms)

Optional(flag, flags, bucket) == IF flag \in Range(flags) THEN bucket ELSE <<>>

Selection(wl, flags) ==
    wl.normal_words
        \o Optional("UncountablePlurals", flags, wl.uncountable_plurals)
        \o Optional("Swears", flags, wl.swears)
        \o Optional("Neologisms", flags, wl.neologisms)

\* C4: custom_list returns the normal bucket followed by exactly the optional
\* buckets whose flag occurs in the collection, each once whatever the number
\* of occurrences of its flag and without deduplication; default_list (and
\* the conversions built on it) returns what custom_list returns for the one
\* flag Neologisms.
C4_Selection ==
    ParsedOk =>
        LET wl == result.value
        IN  /\ stage = "custom_list" =>
                  /\ list = Selection(wl, lastFlags)
                  /\ Len(list) = Len(wl.normal_words)
                        + (IF "UncountablePlurals" \in Range(lastFlags)
                           THEN Len(wl.uncountable_plurals) ELSE 0)
                        + (IF "Swears" \in Range(lastFlags) THEN Len(wl.swears) ELSE 0)
                        + (IF "Neologisms" \in Range(lastFlags)
                           THEN Len(wl.neologisms) ELSE 0)
            /\ stage \in {"default_list", "vec_from"} =>
                  list = wl.normal_words \o wl.neologisms
            /\ stage = "lexicon_from" => words = wl.normal_words \o wl.neologisms

\* custom_list with the flag Swears given twice: the swear bucket is there
\* once, after the normal bucket, and the neologism is left out
C4_Witness ==
    /\ ParsedOk
    /\ stage = "custom_list"
    /\ lastFlags = <<"Swears", "Swears">>
    /\ MainText = <<apple, blogger \o <<"!">> >>
    /\ list = <<apple, fuck>>

SourceFails(file) == ~file.open \/ \E i \in DOMAIN file.lines : ~file.lines[i].ok

\* C6: a parse returns an error value, and never panics, exactly when a
\* source cannot be opened or a line of a source cannot be read or decoded;
\* otherwise it returns a WordList.
C6_TypedFailure ==
    stage # "unparsed" =>
        /\ result.tag # "Panic"
        /\ result.tag = "Err" <=> (SourceFails(main_list) \/ SourceFails(swears_list))
        /\ result.tag = "Ok" <=> ~(SourceFails(main_list) \/ SourceFails(swears_list))

==========================================================================
